---- MODULE Spec2Model ----
(***************************************************************************)
(* Model of src/optimized_recsys.py: the interaction graph                 *)
(* (OptimizedUserItemGraph), the recommendation engine                     *)
(* (OptimizedRecommendationEngine) and the lru_cache that wraps            *)
(* compute_similarity.                                                     *)
(*                                                                         *)
(* A Python dict is a function whose DOMAIN is the dict's key set.         *)
(* A similarity score i/u is held exactly, as the integer (i * Scale) / u  *)
(* where Scale is a common multiple of every possible u; two scores are    *)
(* equal, or ordered, exactly as the two quotients are. A score summed by  *)
(* recommend is the exact sum of such integers.                            *)
(***************************************************************************)
EXTENDS Integers, Sequences, FiniteSets, TLC

\* ---- bounds of the model ----
MaxUsers == 2
MaxItems == 3
MaxEngines == 2
MaxK == 2
\* most interactions a run of Spec or SpecRec stores, and a run of SpecSim or
\* SpecWatch
MaxEdges == 4
MaxSimEdges == 3

\* capacity of the lru_cache (10000 in the source, scaled down)
maxsize == 2

UserStrs == {<<"User", n>> : n \in 1..MaxUsers}
ItemStrs == {<<"Item", n>> : n \in 1..MaxItems}
\* item handles a caller may pass: assigned ones and never-assigned ones
ItemInts == 0..(MaxItems - 1)
Engines == 1..MaxEngines
Ks == (-1)..MaxK

RECURSIVE Lcm1(_, _)
Lcm1(n, m) == IF \A d \in 1..n : m % d = 0 THEN m ELSE Lcm1(n, m + 1)
\* least common multiple of 1..MaxUsers: every union size divides it
Scale == Lcm1(MaxUsers, 1)

\* ---- dict helpers ----
EmptyDict == [x \in {} |-> 0]

\* d[k] = v
Put(d, k, v) == [x \in (DOMAIN d) \cup {k} |-> IF x = k THEN v ELSE d[x]]

\* d.get(k, default)
Get(d, k, default) == IF k \in DOMAIN d THEN d[k] ELSE default

\* graph: the OptimizedUserItemGraph the engines wrap; cache: the lru_cache
\* of compute_similarity; op, ret, raised: the last call made, the value it
\* returned and the exception it raised ("" for none); seen: one remembered
\* compute_similarity call (SpecWatch only)
VARIABLES graph, cache, op, ret, raised, seen

vars == <<graph, cache, op, ret, raised, seen>>

\* ---- OptimizedUserItemGraph ----
NewGraph ==
  [ user_to_items   |-> EmptyDict,
    item_to_users   |-> EmptyDict,
    str_to_int_user |-> EmptyDict,
    int_to_str_user |-> EmptyDict,
    user_counter    |-> 0,
    str_to_int_item |-> EmptyDict,
    int_to_str_item |-> EmptyDict,
    item_counter    |-> 0 ]

\* _get_user_id that forgets to advance user_counter
_get_user_id_nocount(g, user_str) ==
  IF user_str \notin DOMAIN g.str_to_int_user
  THEN LET uid == g.user_counter
       IN [g EXCEPT !.str_to_int_user = Put(@, user_str, uid),
                    !.int_to_str_user = Put(@, uid, user_str)]
  ELSE g

\* the graph after _get_user_id(user_str); the handle returned is
\* UserIdOf of the result
_get_user_id(g, user_str) ==
  IF user_str \notin DOMAIN g.str_to_int_user
  THEN LET uid == g.user_counter
       IN [g EXCEPT !.str_to_int_user = Put(@, user_str, uid),
                    !.int_to_str_user = Put(@, uid, user_str),
                    !.user_counter = @ + 1]
  ELSE g

UserIdOf(g, user_str) == g.str_to_int_user[user_str]

\* _get_item_id that forgets the handle-to-identifier entry
_get_item_id_noreverse(g, item_str) ==
  IF item_str \notin DOMAIN g.str_to_int_item
  THEN LET iid == g.item_counter
       IN [g EXCEPT !.str_to_int_item = Put(@, item_str, iid),
                    !.item_counter = @ + 1]
  ELSE g

\* _get_item_id that advances item_counter by two
_get_item_id_gap(g, item_str) ==
  IF item_str \notin DOMAIN g.str_to_int_item
  THEN LET iid == g.item_counter
       IN [g EXCEPT !.str_to_int_item = Put(@, item_str, iid),
                    !.int_to_str_item = Put(@, iid, item_str),
                    !.item_counter = @ + 2]
  ELSE g

_get_item_id(g, item_str) ==
  IF item_str \notin DOMAIN g.str_to_int_item
  THEN LET iid == g.item_counter
       IN [g EXCEPT !.str_to_int_item = Put(@, item_str, iid),
                    !.int_to_str_item = Put(@, iid, item_str),
                    !.item_counter = @ + 1]
  ELSE g

ItemIdOf(g, item_str) == g.str_to_int_item[item_str]

\* add_interaction that forgets the inverse index
add_interaction_oneway(g, user_str, item_str) ==
  LET g1 == _get_user_id(g, user_str)
      uid == UserIdOf(g1, user_str)
      g2 == _get_item_id(g1, item_str)
      iid == ItemIdOf(g2, item_str)
  IN [g2 EXCEPT !.user_to_items = Put(@, uid, Get(@, uid, {}) \cup {iid})]

\* add_interaction that takes a user handle off the counter on every call
add_interaction_counting(g, user_str, item_str) ==
  LET g1 == _get_user_id(g, user_str)
      uid == UserIdOf(g1, user_str)
      g2 == _get_item_id(g1, item_str)
      iid == ItemIdOf(g2, item_str)
  IN [g2 EXCEPT !.user_to_items = Put(@, uid, Get(@, uid, {}) \cup {iid}),
                !.item_to_users = Put(@, iid, Get(@, iid, {}) \cup {uid}),
                !.user_counter = @ + 1]

add_interaction(g, user_str, item_str) ==
  LET g1 == _get_user_id(g, user_str)
      uid == UserIdOf(g1, user_str)
      g2 == _get_item_id(g1, item_str)
      iid == ItemIdOf(g2, item_str)
  IN [g2 EXCEPT !.user_to_items = Put(@, uid, Get(@, uid, {}) \cup {iid}),
                !.item_to_users = Put(@, iid, Get(@, iid, {}) \cup {uid})]

get_user_items(g, user_str) ==
  IF user_str \notin DOMAIN g.str_to_int_user
  THEN {}
  ELSE Get(g.user_to_items, g.str_to_int_user[user_str], {})

get_item_users(g, item_int) == Get(g.item_to_users, item_int, {})

\* ---- OptimizedRecommendationEngine ----

\* compute_similarity that scores an empty audience as a perfect match
Jaccard_emptyone(g, item_a_int, item_b_int) ==
  LET users_a == get_item_users(g, item_a_int)
      users_b == get_item_users(g, item_b_int)
  IN IF users_a = {} \/ users_b = {}
     THEN Scale
     ELSE LET intersection == Cardinality(users_a \cap users_b)
              union == Cardinality(users_a \cup users_b)
          IN IF union > 0 THEN (intersection * Scale) \div union ELSE 0

\* compute_similarity that divides with // (floor division)
Jaccard_intdiv(g, item_a_int, item_b_int) ==
  LET users_a == get_item_users(g, item_a_int)
      users_b == get_item_users(g, item_b_int)
  IN IF users_a = {} \/ users_b = {}
     THEN 0
     ELSE LET intersection == Cardinality(users_a \cap users_b)
              union == Cardinality(users_a \cup users_b)
          IN IF union > 0 THEN (intersection \div union) * Scale ELSE 0

\* the body of compute_similarity (what runs on a cache miss)
Jaccard(g, item_a_int, item_b_int) ==
  LET users_a == get_item_users(g, item_a_int)
      users_b == get_item_users(g, item_b_int)
  IN IF users_a = {} \/ users_b = {}
     THEN 0
     ELSE LET intersection == Cardinality(users_a \cap users_b)
              union == Cardinality(users_a \cup users_b)
          IN IF union > 0 THEN (intersection * Scale) \div union ELSE 0

\* functools.lru_cache on the method: one cache for the class, keyed by the
\* positional arguments (self, item_a_int, item_b_int) in call order.
\* The cache is a sequence of entries, least recently used first.
CacheKey(e, a, b) == <<e, a, b>>

CacheKeys(c) == {c[n].key : n \in DOMAIN c}

CacheIndex(c, key) == CHOOSE n \in DOMAIN c : c[n].key = key

Without(c, n) == [m \in 1..(Len(c) - 1) |-> IF m < n THEN c[m] ELSE c[m + 1]]

\* a cache in which a hit leaves the order alone (first in, first out)
compute_similarity_fifo(c, g, e, a, b) ==
  LET key == CacheKey(e, a, b)
  IN IF key \in CacheKeys(c)
     THEN LET n == CacheIndex(c, key)
          IN [cache |-> c, ret |-> c[n].val, hit |-> TRUE]
     ELSE LET v == Jaccard(g, a, b)
              kept == IF Len(c) >= maxsize THEN Tail(c) ELSE c
          IN [cache |-> Append(kept, [key |-> key, val |-> v]), ret |-> v, hit |-> FALSE]

\* one call of the wrapped compute_similarity: the cache afterwards and the
\* value returned
compute_similarity(c, g, e, a, b) ==
  LET key == CacheKey(e, a, b)
  IN IF key \in CacheKeys(c)
     THEN LET n == CacheIndex(c, key)
          IN [cache |-> Append(Without(c, n), c[n]), ret |-> c[n].val, hit |-> TRUE]
     ELSE LET v == Jaccard(g, a, b)
              kept == IF Len(c) >= maxsize THEN Tail(c) ELSE c
          IN [cache |-> Append(kept, [key |-> key, val |-> v]), ret |-> v, hit |-> FALSE]

\* every order in which a set can be iterated
RECURSIVE Perms(_)
Perms(S) ==
  IF S = {}
  THEN {<< >>}
  ELSE UNION {{<<x>> \o p : p \in Perms(S \ {x})} : x \in S}

\* user_to_items[other_user] for every other_user of every audience of the
\* history: the keys recommend looks up without a default
RelatedUsers(g, user_items_ints) ==
  UNION {get_item_users(g, my_item) : my_item \in user_items_ints}

\* candidate generation without pruning: every item of the catalogue
Candidates_all(g, user_items_ints) ==
  (DOMAIN g.item_to_users) \ user_items_ints

\* candidate generation that keeps the items already bought
Candidates_keep(g, user_items_ints) ==
  UNION {g.user_to_items[other_user] :
           other_user \in RelatedUsers(g, user_items_ints)}

\* candidate generation and removal of the items already bought
Candidates(g, user_items_ints) ==
  (UNION {g.user_to_items[other_user] :
            other_user \in RelatedUsers(g, user_items_ints)})
    \ user_items_ints

\* the compute_similarity calls of the scoring loops, in call order
RECURSIVE RunCalls(_, _, _, _)
RunCalls(c, g, e, calls) ==
  IF calls = << >>
  THEN [cache |-> c, vals |-> << >>]
  ELSE LET r == compute_similarity(c, g, e, Head(calls)[1], Head(calls)[2])
           rest == RunCalls(r.cache, g, e, Tail(calls))
       IN [cache |-> rest.cache, vals |-> <<r.ret>> \o rest.vals]

RECURSIVE SumSeq(_)
SumSeq(s) == IF s = << >> THEN 0 ELSE Head(s) + SumSeq(Tail(s))

\* nlargest that stops one short
nlargest_short(k, items) ==
  LET rank(j) == Cardinality({m \in DOMAIN items :
                     \/ items[m][2] > items[j][2]
                     \/ items[m][2] = items[j][2] /\ m < j}) + 1
      n == IF k <= 1 THEN 0 ELSE IF k - 1 < Len(items) THEN k - 1 ELSE Len(items)
  IN [p \in 1..n |-> items[CHOOSE j \in DOMAIN items : rank(j) = p]]

\* heapq.nlargest(k, items, key = score): the first k of a stable sort by
\* descending score; empty for k <= 0
nlargest(k, items) ==
  LET rank(j) == Cardinality({m \in DOMAIN items :
                     \/ items[m][2] > items[j][2]
                     \/ items[m][2] = items[j][2] /\ m < j}) + 1
      n == IF k <= 0 THEN 0 ELSE IF k < Len(items) THEN k ELSE Len(items)
  IN [p \in 1..n |-> items[CHOOSE j \in DOMAIN items : rank(j) = p]]

\* every user_to_items[other_user] lookup of candidate generation finds its key
LookupsFound(g, user_items_ints) ==
  RelatedUsers(g, user_items_ints) \subseteq DOMAIN g.user_to_items

\* the (my_item, candidate) arguments of the scoring loops, in call order
ScoringCalls(my_items, cands) ==
  [n \in 1..(Len(cands) * Len(my_items)) |->
     <<my_items[((n - 1) % Len(my_items)) + 1],
       cands[((n - 1) \div Len(my_items)) + 1]>>]

\* scores.items(): each candidate with the sum of its nh similarities
Scores(cands, nh, vals) ==
  [j \in 1..Len(cands) |->
     <<cands[j], SumSeq(SubSeq(vals, (j - 1) * nh + 1, j * nh))>>]

\* the translation of the selected handles back to identifiers
Translated(g, cache_after, top_k_ints) ==
  IF \E n \in DOMAIN top_k_ints : top_k_ints[n][1] \notin DOMAIN g.int_to_str_item
  THEN [graph |-> g, cache |-> cache_after, ret |-> << >>, raised |-> "KeyError"]
  ELSE [graph |-> g, cache |-> cache_after, raised |-> "",
        ret |-> [n \in DOMAIN top_k_ints |->
                   <<g.int_to_str_item[top_k_ints[n][1]], top_k_ints[n][2]>>]]

\* ranking and translation, after the scoring loops have run
Ranked(g, k, cands, nh, run) ==
  Translated(g, run.cache, nlargest(k, Scores(cands, nh, run.vals)))

\* the early return for an empty history, interning the user on the way
EmptyHistoryResult_interning(c, g, user_str) ==
  [graph |-> _get_user_id(g, user_str), cache |-> c, ret |-> << >>, raised |-> ""]

\* if not user_items_ints: return []
EmptyHistoryResult(c, g, user_str) ==
  [graph |-> g, cache |-> c, ret |-> << >>, raised |-> ""]

\* recommend(user_str, k) on engine e, the history iterated in order my_items
\* and the candidate set in order cands: the graph and the cache afterwards
\* and the value returned (raised is "KeyError" when a lookup without default
\* misses).
\* user_items_ints is the stored set itself, candidate_items a fresh set; the
\* in-place update and -= act on candidate_items only, so the graph is as before.
recommend(c, g, e, user_str, k, my_items, cands) ==
  LET user_items_ints == get_user_items(g, user_str)
  IN IF user_items_ints = {}
     THEN EmptyHistoryResult(c, g, user_str)
     ELSE IF ~LookupsFound(g, user_items_ints)
     THEN [graph |-> g, cache |-> c, ret |-> << >>, raised |-> "KeyError"]
     ELSE Ranked(g, k, cands, Len(my_items),
                 RunCalls(c, g, e, ScoringCalls(my_items, cands)))

\* ---- state machine ----
NoWatch == [key |-> << >>, val |-> 0, hit |-> FALSE]

Init ==
  /\ graph = NewGraph
  /\ cache = << >>
  /\ op = [name |-> "init"]
  /\ ret = << >>
  /\ raised = ""
  /\ seen = NoWatch

InternUser(u) ==
  /\ graph' = _get_user_id(graph, u)
  /\ ret' = UserIdOf(graph', u)
  /\ op' = [name |-> "_get_user_id", user |-> u]
  /\ UNCHANGED <<cache, raised, seen>>

InternItem(i) ==
  /\ graph' = _get_item_id(graph, i)
  /\ ret' = ItemIdOf(graph', i)
  /\ op' = [name |-> "_get_item_id", item |-> i]
  /\ UNCHANGED <<cache, raised, seen>>

\* the interactions stored, as (user handle, item handle) pairs
Edges(g) ==
  {p \in (DOMAIN g.user_to_items) \X (DOMAIN g.item_to_users) :
     p[2] \in g.user_to_items[p[1]]}

\* the pair (u, i) is stored already
HasInteraction(g, u, i) ==
  /\ i \in DOMAIN g.str_to_int_item
  /\ g.str_to_int_item[i] \in get_user_items(g, u)

\* add_interaction that clears the similarity cache
AddInteraction_invalidating(u, i) ==
  /\ graph' = add_interaction(graph, u, i)
  /\ ret' = << >>
  /\ op' = [name |-> "add_interaction", user |-> u, item |-> i,
            present |-> HasInteraction(graph, u, i)]
  /\ seen' = NoWatch
  /\ cache' = << >>
  /\ UNCHANGED raised

AddInteraction(u, i) ==
  /\ graph' = add_interaction(graph, u, i)
  /\ ret' = << >>
  /\ op' = [name |-> "add_interaction", user |-> u, item |-> i,
            present |-> HasInteraction(graph, u, i)]
  /\ seen' = NoWatch
  /\ UNCHANGED <<cache, raised>>

GetUserItems(u) ==
  /\ ret' = get_user_items(graph, u)
  /\ op' = [name |-> "get_user_items", user |-> u]
  /\ UNCHANGED <<graph, cache, raised, seen>>

\* get_item_users that indexes item_to_users as a defaultdict would
GetItemUsers_setdefault(a) ==
  /\ ret' = get_item_users(graph, a)
  /\ op' = [name |-> "get_item_users", a |-> a]
  /\ graph' = [graph EXCEPT !.item_to_users = Put(@, a, Get(@, a, {}))]
  /\ UNCHANGED <<cache, raised, seen>>

GetItemUsers(a) ==
  /\ ret' = get_item_users(graph, a)
  /\ op' = [name |-> "get_item_users", a |-> a]
  /\ UNCHANGED <<graph, cache, raised, seen>>

SimilarityCall(e, a, b) ==
  LET r == compute_similarity(cache, graph, e, a, b)
  IN /\ cache' = r.cache
     /\ ret' = r.ret
     /\ op' = [name |-> "compute_similarity", engine |-> e, a |-> a, b |-> b,
               hit |-> r.hit]
     /\ UNCHANGED <<graph, raised>>

ComputeSimilarity(e, a, b) ==
  /\ SimilarityCall(e, a, b)
  /\ UNCHANGED seen

\* the same call, observed: seen may start to remember this call's arguments
\* and result, until the next add_interaction
WatchedSimilarity(e, a, b) ==
  /\ SimilarityCall(e, a, b)
  /\ seen' \in {seen, [key |-> CacheKey(e, a, b), val |-> ret', hit |-> op'.hit]}

Recommend(e, u, k) ==
  LET user_items_ints == get_user_items(graph, u)
      candidate_items == IF LookupsFound(graph, user_items_ints)
                         THEN Candidates(graph, user_items_ints)
                         ELSE {}
  IN \E my_items \in Perms(user_items_ints) :
       \E cands \in Perms(candidate_items) :
         \* r is bound to the value, so the call is evaluated once
         \E r \in {recommend(cache, graph, e, u, k, my_items, cands)} :
            /\ graph' = r.graph
            /\ cache' = r.cache
            /\ ret' = r.ret
            /\ raised' = r.raised
            /\ op' = [name |-> "recommend", engine |-> e, user |-> u, k |-> k]
            /\ UNCHANGED seen

\* the insertions a run bounded to max stored interactions may make
CanAdd(max, u, i) ==
  Cardinality(Edges(graph)) < max \/ HasInteraction(graph, u, i)

\* add_interaction(u, i) in a run bounded to max stored interactions
AddWithin(max, u, i) ==
  /\ CanAdd(max, u, i)
  /\ AddInteraction(u, i)

\* External identifiers are opaque to the code (dict keys, compared for
\* equality only), so every run is a renaming of one whose callers first use
\* new identifiers in index order: the identifiers seen so far and the next one.
UserArgs(g) == {u \in UserStrs : u[2] <= Cardinality(DOMAIN g.str_to_int_user) + 1}

ItemArgs(g) == {i \in ItemStrs : i[2] <= Cardinality(DOMAIN g.str_to_int_item) + 1}

\* the graph on its own: interning, insertion and the two read accessors
Next ==
  \/ \E u \in UserArgs(graph) : InternUser(u)
  \/ \E i \in ItemArgs(graph) : InternItem(i)
  \/ \E u \in UserArgs(graph), i \in ItemArgs(graph) :
       AddWithin(MaxEdges, u, i)
  \/ \E u \in UserArgs(graph) : GetUserItems(u)
  \/ \E a \in ItemInts : GetItemUsers(a)

Spec == Init /\ [][Next]_vars

\* insertions and user interning interleaved with recommend calls on one engine
NextRec ==
  \/ \E u \in UserArgs(graph) : InternUser(u)
  \/ \E u \in UserArgs(graph), i \in ItemArgs(graph) :
       AddWithin(MaxEdges, u, i)
  \/ \E u \in UserArgs(graph), k \in Ks : Recommend(1, u, k)

SpecRec == Init /\ [][NextRec]_vars

\* insertions interleaved with direct compute_similarity calls on one engine
NextSim ==
  \/ \E u \in UserArgs(graph), i \in ItemArgs(graph) :
       AddWithin(MaxSimEdges, u, i)
  \/ \E a \in ItemInts, b \in ItemInts : ComputeSimilarity(1, a, b)

SpecSim == Init /\ [][NextSim]_vars

NextWatch ==
  \/ \E u \in UserArgs(graph), i \in ItemArgs(graph) :
       AddWithin(MaxSimEdges, u, i)
  \/ \E a \in ItemInts, b \in ItemInts : WatchedSimilarity(1, a, b)

SpecWatch == Init /\ [][NextWatch]_vars

\* insertions interleaved with every query of the graph and of one engine
NextMix ==
  \/ \E u \in UserArgs(graph), i \in ItemArgs(graph) :
       AddWithin(MaxSimEdges, u, i)
  \/ \E u \in UserArgs(graph) : GetUserItems(u)
  \/ \E a \in ItemInts : GetItemUsers(a)
  \/ \E a \in ItemInts, b \in ItemInts : ComputeSimilarity(1, a, b)
  \/ \E u \in UserArgs(graph), k \in Ks : Recommend(1, u, k)

SpecMix == Init /\ [][NextMix]_vars

\* insertions interleaved with compute_similarity calls on every engine; the
\* engines wrap the same graph
NextEngines ==
  \/ \E u \in UserArgs(graph), i \in ItemArgs(graph) :
       AddWithin(MaxSimEdges, u, i)
  \/ \E e \in Engines, a \in ItemInts, b \in ItemInts : ComputeSimilarity(e, a, b)

SpecEngines == Init /\ [][NextEngines]_vars

\* ---- properties ----
UserInts == 0..(MaxUsers - 1)

\* C1: mirror invariant. After any sequence of add_interaction calls, for
\* every user handle u and item handle i, i is in user_to_items[u] exactly
\* when u is in item_to_users[i] (a missing key holds nothing).
C1_Mirror ==
  \A u \in UserInts \cup DOMAIN graph.user_to_items :
    \A i \in ItemInts \cup DOMAIN graph.item_to_users :
      (i \in Get(graph.user_to_items, u, {}))
        <=> (u \in Get(graph.item_to_users, i, {}))

\* two users share an item and one of them has a second item
C1_Witness ==
  /\ op.name = "add_interaction"
  /\ Cardinality(Edges(graph)) >= 3
  /\ \E i \in DOMAIN graph.item_to_users :
       Cardinality(graph.item_to_users[i]) = 2

\* what one step does to one interner: known identifiers keep their handle,
\* a new identifier gets the number of identifiers interned before it, and
\* no two identifiers share a handle
InternerStep(s2i, s2i_next) ==
  /\ \A s \in DOMAIN s2i : s \in DOMAIN s2i_next /\ s2i_next[s] = s2i[s]
  /\ \A s \in (DOMAIN s2i_next) \ (DOMAIN s2i) :
       s2i_next[s] = Cardinality(DOMAIN s2i)
  /\ \A s, t \in DOMAIN s2i_next : s2i_next[s] = s2i_next[t] => s = t

\* C2: interning is stable and sequential. Interning a known identifier
\* returns its first handle and changes nothing; the n-th distinct identifier
\* gets handle n-1; no handle is ever given to a second identifier. Holds for
\* both interners across _get_user_id, _get_item_id and add_interaction.
C2_Interning ==
  [][ /\ InternerStep(graph.str_to_int_user, graph'.str_to_int_user)
      /\ InternerStep(graph.str_to_int_item, graph'.str_to_int_item)
      /\ \A h \in DOMAIN graph.int_to_str_user :
           h \in DOMAIN graph'.int_to_str_user
             /\ graph'.int_to_str_user[h] = graph.int_to_str_user[h]
      /\ \A h \in DOMAIN graph.int_to_str_item :
           h \in DOMAIN graph'.int_to_str_item
             /\ graph'.int_to_str_item[h] = graph.int_to_str_item[h]
      /\ op'.name = "_get_user_id" =>
           /\ ret' = graph'.str_to_int_user[op'.user]
           /\ op'.user \in DOMAIN graph.str_to_int_user =>
                ret' = graph.str_to_int_user[op'.user] /\ graph' = graph
      /\ op'.name = "_get_item_id" =>
           /\ ret' = graph'.str_to_int_item[op'.item]
           /\ op'.item \in DOMAIN graph.str_to_int_item =>
                ret' = graph.str_to_int_item[op'.item] /\ graph' = graph
    ]_vars

\* the first item is interned again after a second one was allocated, and
\* both users are interned
C2_Witness ==
  /\ op.name = "_get_item_id"
  /\ ret = 0
  /\ graph.item_counter >= 2
  /\ graph.user_counter = MaxUsers
\* C3: compute_similarity(a, b) returns the Jaccard index of the two
\* audiences as they are at the time of the call, at any point of any
\* interleaving of add_interaction and compute_similarity calls.
C3_Jaccard ==
  op.name = "compute_similarity" => ret = Jaccard(graph, op.a, op.b)

\* C4: symmetry. In every reachable state, the value a compute_similarity(a, b)
\* call has just returned is the value compute_similarity(b, a) returns next.
C4_Symmetry ==
  op.name = "compute_similarity" =>
    ret = compute_similarity(cache, graph, op.engine, op.b, op.a).ret

InRange(v, a, b) ==
  /\ 0 <= v /\ v <= Scale
  /\ (get_item_users(graph, a) = {} \/ get_item_users(graph, b) = {}) => v = 0

\* C5: range. Every value compute_similarity returns, computed or cached, lies
\* in [0, 1] (0..Scale), and is 0 whenever either item has an empty audience
\* now, also for a pair cached earlier and a handle never seen.
C5_Range ==
  /\ op.name = "compute_similarity" => InRange(ret, op.a, op.b)
  /\ \A n \in DOMAIN cache : InRange(cache[n].val, cache[n].key[2], cache[n].key[3])

\* a cache hit for a pair whose second item has no audience while the first
\* has one, with a fractional score cached alongside
C5_Witness ==
  /\ op.name = "compute_similarity"
  /\ op.hit
  /\ get_item_users(graph, op.a) # {}
  /\ get_item_users(graph, op.b) = {}
  /\ ret = 0
  /\ \E n \in DOMAIN cache : 0 < cache[n].val /\ cache[n].val < Scale

\* C6: caching transparency. A compute_similarity call with the arguments of
\* a remembered earlier call, with no add_interaction in between, returns the
\* remembered value, whatever other compute_similarity calls came in between.
C6_Transparency ==
  (op.name = "compute_similarity" /\ seen.key = CacheKey(op.engine, op.a, op.b))
    => ret = seen.val

\* C7: memoization by unordered pair. Once compute_similarity(a, b) has been
\* computed, with its entry still cached and no insertion since, a call
\* compute_similarity(b, a) is a cache hit, returns the same score and creates
\* no cache entry.
C7_Unordered ==
  [][ ( /\ op'.name = "compute_similarity"
        /\ seen.key = CacheKey(op'.engine, op'.b, op'.a)
        /\ ~seen.hit
        /\ seen.key \in CacheKeys(cache) )
      => ( /\ op'.hit
           /\ ret' = seen.val
           /\ CacheKeys(cache') = CacheKeys(cache) )
    ]_vars

\* C8: pruning soundness. Every item recommend returns has a user in its
\* audience who is also in the audience of an item of the caller's history.
C8_Pruning ==
  op.name = "recommend" =>
    \A n \in DOMAIN ret :
      \E m \in get_user_items(graph, op.user) :
        get_item_users(graph, graph.str_to_int_item[ret[n][1]])
          \cap get_item_users(graph, m) # {}

\* two items are recommended to a user
C8_Witness ==
  /\ op.name = "recommend"
  /\ raised = ""
  /\ Len(ret) = 2

\* C9: no self-recommendation. No item of the user's history at the time of
\* the call is in the output of recommend, and the call removes nothing from
\* any stored history.
C9_NoSelf ==
  [][ op'.name = "recommend" =>
        /\ \A n \in DOMAIN ret' :
             graph.str_to_int_item[ret'[n][1]] \notin get_user_items(graph, op'.user)
        /\ \A u \in UserStrs :
             get_user_items(graph, u) \subseteq get_user_items(graph', u)
    ]_vars

\* a user with two items in the history gets a recommendation
C9_Witness ==
  /\ op.name = "recommend"
  /\ raised = ""
  /\ Len(ret) >= 1
  /\ Cardinality(get_user_items(graph, op.user)) >= 2

\* the user was never seen, or was interned and has no interactions
NoHistory(g, u) ==
  \/ u \notin DOMAIN g.str_to_int_user
  \/ g.str_to_int_user[u] \notin DOMAIN g.user_to_items
  \/ g.user_to_items[g.str_to_int_user[u]] = {}

\* C10: empty history. For a user never seen, or interned without
\* interactions, recommend returns the empty sequence, raises nothing and
\* leaves the graph (so the interner) as it was.
C10_EmptyHistory ==
  [][ (op'.name = "recommend" /\ NoHistory(graph, op'.user)) =>
        (ret' = << >> /\ raised' = "" /\ graph' = graph)
    ]_vars

\* recommend with k > 0 for a user interned without interactions, in a graph
\* where another user has some
C10_Witness ==
  /\ op.name = "recommend"
  /\ op.k > 0
  /\ op.user \in DOMAIN graph.str_to_int_user
  /\ NoHistory(graph, op.user)
  /\ Edges(graph) # {}
  /\ ret = << >>

\* the items that share a user with an item of history H, H itself excluded
TwoHop(g, H) ==
  {c \in DOMAIN g.item_to_users :
     \E m \in H : get_item_users(g, c) \cap get_item_users(g, m) # {}} \ H

\* the item handles of a recommend result
Returned(g, r) == {g.str_to_int_item[r[n][1]] : n \in DOMAIN r}

\* C11: top-k bound. recommend(user, k) returns exactly min(k, |candidates|)
\* pairs, candidates being the two-hop set minus the history; the items are
\* pairwise distinct; for k <= 0 the result is empty.
C11_TopK ==
  op.name = "recommend" =>
    LET n == Cardinality(TwoHop(graph, get_user_items(graph, op.user)))
    IN /\ Len(ret) = IF op.k <= 0 THEN 0 ELSE IF op.k < n THEN op.k ELSE n
       /\ \A p, q \in DOMAIN ret : ret[p][1] = ret[q][1] => p = q

\* k = 1 cuts a candidate set of two down to one pair
C11_Witness ==
  /\ op.name = "recommend"
  /\ op.k = 1
  /\ Cardinality(TwoHop(graph, get_user_items(graph, op.user))) = 2
  /\ Len(ret) = 1

\* the sum over the items m of H of the Jaccard similarity of m and c
RECURSIVE JaccardSum(_, _, _)
JaccardSum(g, H, c) ==
  IF H = {}
  THEN 0
  ELSE LET m == CHOOSE x \in H : TRUE
       IN Jaccard(g, m, c) + JaccardSum(g, H \ {m}, c)

\* the graph after add_interaction of (U1,A), (U1,B), (U2,A), (U2,C)
ScenarioGraph ==
  add_interaction(
    add_interaction(
      add_interaction(
        add_interaction(NewGraph, <<"User", 1>>, <<"Item", 1>>),
        <<"User", 1>>, <<"Item", 2>>),
      <<"User", 2>>, <<"Item", 1>>),
    <<"User", 2>>, <<"Item", 3>>)

\* C12: scoring and ranking. The score recommend pairs with an item c is the
\* sum over the history of the Jaccard similarity with c; the pairs are in
\* non-increasing score order; no candidate left out scores more than a
\* returned one; on the scenario graph recommend(U1, k) is [(C, 0.5)].
C12_Scoring ==
  op.name = "recommend" =>
    LET H == get_user_items(graph, op.user)
    IN /\ \A n \in DOMAIN ret :
            ret[n][2] = JaccardSum(graph, H, graph.str_to_int_item[ret[n][1]])
       /\ \A n \in DOMAIN ret : n < Len(ret) => ret[n][2] >= ret[n + 1][2]
       /\ \A c \in TwoHop(graph, H) \ Returned(graph, ret) :
            \A n \in DOMAIN ret : JaccardSum(graph, H, c) <= ret[n][2]
       /\ (graph = ScenarioGraph /\ op.user = <<"User", 1>> /\ op.k >= 1) =>
            ret = << <<(<<"Item", 3>>), Scale \div 2>> >>

\* C13: recommend is total. No call raises, and in every reachable state the
\* lookups without default find their key: user_to_items[other_user] for
\* every user of an audience of a history item, int_to_str_item[iid] for
\* every item such a user holds.
C13_Total ==
  /\ raised = ""
  /\ \A u \in UserStrs :
       \A m \in get_user_items(graph, u) :
         \A other_user \in get_item_users(graph, m) :
           /\ other_user \in DOMAIN graph.user_to_items
           /\ graph.user_to_items[other_user] \subseteq DOMAIN graph.int_to_str_item

\* recommend has translated one selected handle back to its identifier
C13_Witness ==
  /\ op.name = "recommend"
  /\ op.k = MaxK
  /\ Len(ret) = 1
  /\ ret[1][1] \in ItemStrs

\* C14: add_interaction is idempotent. A call for a pair already stored
\* leaves both adjacency maps, the four interner maps and both counters as
\* they were.
C14_Idempotent ==
  [][(op'.name = "add_interaction" /\ HasInteraction(graph, op'.user, op'.item))
       => graph' = graph]_vars

\* a stored pair has been added again, among other pairs
C14_Witness ==
  /\ op.name = "add_interaction"
  /\ op.present
  /\ Cardinality(Edges(graph)) >= 2

\* the entries of cache c made by engine e, least recently used first
EntriesOf(c, e) == SelectSeq(c, LAMBDA x : x.key[1] = e)

\* C15: the engine owns its cache. A compute_similarity call on one engine
\* neither adds, evicts nor reorders an entry of another engine.
C15_OwnCache ==
  [][op'.name = "compute_similarity" =>
       \A e \in Engines \ {op'.engine} : EntriesOf(cache', e) = EntriesOf(cache, e)]_vars

\* the cache without its most recent entry
Older(c) == SubSeq(c, 1, Len(c) - 1)

\* one compute_similarity step of a least-recently-used cache: the key of the
\* call becomes the most recent; on a hit the other entries keep their order;
\* on a miss the oldest entry goes if and only if the cache was full
LRUStep ==
  op'.name = "compute_similarity" =>
    LET key == CacheKey(op'.engine, op'.a, op'.b)
    IN /\ cache' # << >>
       /\ cache'[Len(cache')].key = key
       /\ op'.hit <=> key \in CacheKeys(cache)
       /\ op'.hit => Older(cache') = SelectSeq(cache, LAMBDA x : x.key # key)
       /\ (~op'.hit /\ Len(cache) = maxsize) => Older(cache') = Tail(cache)
       /\ (~op'.hit /\ Len(cache) < maxsize) => Older(cache') = cache

\* C16: the cache is bounded and least-recently-used. It never holds more
\* than maxsize entries, and every call moves it as LRUStep says.
C16_BoundedLRU ==
  /\ [](Len(cache) <= maxsize /\ Cardinality(CacheKeys(cache)) = Len(cache))
  /\ [][LRUStep]_vars

\* a hit in a full cache
C16_Witness ==
  /\ op.name = "compute_similarity"
  /\ op.hit
  /\ Len(cache) = maxsize
  /\ cache[maxsize].key = CacheKey(op.engine, op.a, op.b)

\* the value cache c holds for key
CachedVal(c, key) == c[CacheIndex(c, key)].val

\* C17: insertions never invalidate. add_interaction leaves the cache as it
\* was, a hit returns the value stored when the entry was made, and an entry
\* that stays in the cache keeps its value across every step.
C17_NoInvalidation ==
  [][/\ op'.name = "add_interaction" => cache' = cache
     /\ (op'.name = "compute_similarity" /\ op'.hit) =>
          ret' = CachedVal(cache, CacheKey(op'.engine, op'.a, op'.b))
     /\ \A key \in CacheKeys(cache) \cap CacheKeys(cache') :
          CachedVal(cache', key) = CachedVal(cache, key)]_vars

\* a hit has returned a value that an insertion made out of date
C17_Witness ==
  /\ op.name = "compute_similarity"
  /\ op.hit
  /\ ret # Jaccard(graph, op.a, op.b)

\* one interner is a dense bijection: the two maps are inverses of each
\* other, the handles are 0 .. counter-1, and counter is the number of
\* identifiers
DenseBijection(s2i, i2s, counter) ==
  /\ DOMAIN i2s = 0..(counter - 1)
  /\ counter = Cardinality(DOMAIN s2i)
  /\ \A s \in DOMAIN s2i : s2i[s] \in DOMAIN i2s /\ i2s[s2i[s]] = s
  /\ \A h \in DOMAIN i2s : i2s[h] \in DOMAIN s2i /\ s2i[i2s[h]] = h

\* every key and member of the adjacency maps is an assigned handle
HandlesAssigned(g) ==
  /\ DOMAIN g.user_to_items \subseteq DOMAIN g.int_to_str_user
  /\ DOMAIN g.item_to_users \subseteq DOMAIN g.int_to_str_item
  /\ \A u \in DOMAIN g.user_to_items : g.user_to_items[u] \subseteq DOMAIN g.int_to_str_item
  /\ \A i \in DOMAIN g.item_to_users : g.item_to_users[i] \subseteq DOMAIN g.int_to_str_user

\* C18: each interner is a dense bijection in every reachable state, every
\* adjacency handle is an assigned handle, and no step removes an interner
\* entry.
C18_DenseBijection ==
  /\ [](/\ DenseBijection(graph.str_to_int_user, graph.int_to_str_user, graph.user_counter)
        /\ DenseBijection(graph.str_to_int_item, graph.int_to_str_item, graph.item_counter)
        /\ HandlesAssigned(graph))
  /\ [][/\ DOMAIN graph.str_to_int_user \subseteq DOMAIN graph'.str_to_int_user
        /\ DOMAIN graph.str_to_int_item \subseteq DOMAIN graph'.str_to_int_item
        /\ DOMAIN graph.int_to_str_user \subseteq DOMAIN graph'.int_to_str_user
        /\ DOMAIN graph.int_to_str_item \subseteq DOMAIN graph'.int_to_str_item]_vars

\* all users and items are interned, one item without any interaction
C18_Witness ==
  /\ graph.user_counter = MaxUsers
  /\ graph.item_counter = MaxItems
  /\ Cardinality(DOMAIN graph.item_to_users) < MaxItems
  /\ Edges(graph) # {}

\* C19: queries do not modify the graph. get_user_items, get_item_users,
\* compute_similarity and recommend leave the adjacency maps, the interner
\* maps and the counters as they were, for known and unknown arguments; an
\* unknown user or item yields the empty set.
C19_QueriesPure ==
  [][/\ op'.name \in {"get_user_items", "get_item_users",
                      "compute_similarity", "recommend"} => graph' = graph
     /\ (op'.name = "get_user_items"
           /\ op'.user \notin DOMAIN graph.str_to_int_user) => ret' = {}
     /\ (op'.name = "get_item_users"
           /\ op'.a \notin DOMAIN graph.item_to_users) => ret' = {}]_vars

\* a query for an item handle nobody has interned, on a graph with data
C19_Witness ==
  /\ op.name = "get_item_users"
  /\ op.a \notin DOMAIN graph.int_to_str_item
  /\ op.a \notin DOMAIN graph.item_to_users
  /\ ret = {}
  /\ Edges(graph) # {}

\* every entry of cache c holds the Jaccard index of its pair in graph g
AllFresh(c, g) ==
  \A n \in DOMAIN c : c[n].val = Jaccard(g, c[n].key[2], c[n].key[3])

\* C20: every score recommend returns lies between 0 and the size of the
\* history, and is above 0 when the cache held no out-of-date entry at the
\* call.
C20_ScoreRange ==
  [][op'.name = "recommend" =>
       LET H == get_user_items(graph, op'.user)
       IN \A n \in DOMAIN ret' :
            /\ 0 <= ret'[n][2]
            /\ ret'[n][2] <= Cardinality(H) * Scale
            /\ AllFresh(cache, graph) => ret'[n][2] > 0]_vars

\* a history of two items gives a candidate a score strictly between 0 and 1
C20_Witness ==
  /\ op.name = "recommend"
  /\ Cardinality(get_user_items(graph, op.user)) = 2
  /\ Len(ret) >= 1
  /\ ret[1][2] > 0
  /\ ret[1][2] < Scale
====
